---------------------------- MODULE Spec2Model ----------------------------
(***************************************************************************)
(* A model of agc-rs: the build script build.rs (the native-dependency     *)
(* build orchestrator: locate or build libagc.a, locate a Homebrew GCC,    *)
(* configure the cxx bridge, print the cargo link directives) and of       *)
(* AGCFile::get_full_contig in src/lib.rs.                                 *)
(*                                                                         *)
(* build.rs is one sequential run of main().  Every external process call  *)
(* (gmake, brew, make, the bridge compiler, gcc) is a step of its own, its *)
(* result drawn from the outcomes the call can have.                       *)
(***************************************************************************)
EXTENDS Integers, Sequences, FiniteSets, TLC

VARIABLES
    macos,          \* cfg!(target_os = "macos")
    aarch64,        \* cfg!(target_arch = "aarch64")
    agcDirSet,      \* env::var("AGC_DIR") is Ok
    artifact,       \* agc_root.join("bin/libagc.a").exists() when main starts
    pc,             \* position of main()
    ret,            \* call site detect_homebrew_gcc returns to
    brew,           \* what `brew --prefix gcc@ver` does, per candidate, during one call
    locIdx,         \* detect_homebrew_gcc: index of the loop variable ver
    probeLog,       \* detect_homebrew_gcc: the candidates probed so far, in order
    locResult,      \* detect_homebrew_gcc: the Option returned (<<>> is None)
    resolved,       \* the result of every detect_homebrew_gcc call of this run
    makeCmd,        \* make_cmd
    makeEnv,        \* the variables set on the make Command with .env()
    childEnv,       \* the environment the make child process was started with
    makeCount,      \* how many times make.status() ran
    makeOutcome,    \* what make.status() gave
    procEnv,        \* the environment of the build script's own process
    bridge,         \* the cxx_build configuration: compiler, flags, compiled
    out,            \* the cargo: lines printed to stdout so far, in order
    procs,          \* every child process started so far, with the stage it ran in
    abortMsg,       \* the panic message, "" while running
    fsSeen,         \* what the link stage found on disk
    length,         \* lib.rs: the i64 get_contig_length returned, as 16-bit limbs
    request,        \* lib.rs: the (start, end) requests passed to get_contig_string
    result          \* lib.rs: what get_full_contig returned

cfgVars == <<macos, aarch64, agcDirSet, artifact>>
locVars == <<ret, brew, locIdx, probeLog, locResult>>
makeVars == <<makeCmd, makeEnv, childEnv, makeCount, makeOutcome>>
buildVars == <<cfgVars, pc, locVars, resolved, makeVars, procEnv, bridge, out,
               procs, abortMsg, fsSeen>>
libVars == <<length, request, result>>
vars == <<buildVars, libVars>>

(***************************************************************************)
(* detect_homebrew_gcc                                                     *)
(***************************************************************************)
CandidatesAscending == <<"11", "12", "13">>

\* for ver in ["13", "12", "11"]
Candidates == <<"13", "12", "11">>
CandidateSet == {Candidates[i] : i \in 1..Len(Candidates)}

\* What one `brew --prefix gcc@ver` call can do: the process cannot be started
\* (output() is Err), it exits unsuccessfully, it succeeds printing only
\* whitespace, it succeeds printing a prefix.
ProbeOutcomes == {"spawnfail", "exitfail", "empty", "ok"}

\* The trimmed stdout of a probe.
ProbeStdout(ver, outcome) ==
    IF outcome = "ok" THEN "/opt/homebrew/opt/gcc@" \o ver ELSE ""

ProbeFoundIgnoringEmpty(ver, outcome) == outcome \in {"ok", "empty"}

\* if let Ok(out) = ... { if out.status.success() { if !prefix.is_empty() {
ProbeFound(ver, outcome) ==
    /\ outcome # "spawnfail"
    /\ outcome # "exitfail"
    /\ ProbeStdout(ver, outcome) # ""

None == <<>>
Some(prefix, ver) == <<[prefix |-> prefix, ver |-> ver]>>
IsSome(opt) == opt # None
Unwrap(opt) == opt[1]

\* brew outside a call of detect_homebrew_gcc: nothing is being probed.
NoBrew == [v \in CandidateSet |-> "idle"]

Stage(site) == CASE site = "build" -> "native"
                 [] site \in {"env", "bridge"} -> "bridge"
                 [] site = "link" -> "link"

Proc(stage, cmd) == [stage |-> stage, cmd |-> cmd]

\* The call itself: the locals of detect_homebrew_gcc are set up.  The probe
\* results of this call are one assignment of outcomes to the candidates.
Locate(site) ==
    /\ ret' = site
    /\ pc' = "locating"
    /\ locIdx' = 1
    /\ probeLog' = <<>>
    /\ locResult' = None
    /\ \E b \in [CandidateSet -> ProbeOutcomes] : brew' = b

\* One iteration of `for ver in ["13", "12", "11"]`.
LocProbe ==
    /\ pc = "locating"
    /\ locIdx <= Len(Candidates)
    /\ LET ver == Candidates[locIdx]
           outcome == brew[ver]
       IN  /\ probeLog' = Append(probeLog, ver)
           /\ procs' = Append(procs, Proc(Stage(ret), "brew --prefix gcc@" \o ver))
           /\ IF ProbeFound(ver, outcome)
              THEN /\ locResult' = Some(ProbeStdout(ver, outcome), ver)
                   /\ pc' = "located"
                   /\ UNCHANGED locIdx
              ELSE /\ locIdx' = locIdx + 1
                   /\ UNCHANGED <<locResult, pc>>
    /\ UNCHANGED <<cfgVars, ret, brew, resolved, makeVars, procEnv, bridge, out,
                   abortMsg, fsSeen, libVars>>

\* The loop is over: None.
LocExhausted ==
    /\ pc = "locating"
    /\ locIdx > Len(Candidates)
    /\ locResult' = None
    /\ pc' = "located"
    /\ UNCHANGED <<cfgVars, ret, brew, locIdx, probeLog, resolved, makeVars,
                   procEnv, bridge, out, procs, abortMsg, fsSeen, libVars>>

\* The caller takes the result; the locals of the call are gone.
Returned(site) ==
    /\ pc = "located"
    /\ ret = site
    /\ resolved' = Append(resolved, [site |-> site, tc |-> locResult])
    /\ ret' = ""
    /\ brew' = NoBrew
    /\ locIdx' = 1
    /\ probeLog' = <<>>
    /\ locResult' = None

Panic(msg) ==
    /\ pc' = "aborted"
    /\ abortMsg' = msg

\* One line println!("cargo:<kind>=<...>") of the build script.
Line(kind, name, path) == [kind |-> kind, name |-> name, path |-> path]
Warning(text) == Line("warning", text, "")
Search(dir) == Line("rustc-link-search", "native", dir)
ForceLoad(name, path) == Line("rustc-link-arg", name, "-Wl,-force_load," \o path)
Lib(mode, name) == Line("rustc-link-lib", name, mode)

(***************************************************************************)
(* main, 1. Build / locate AGC                                             *)
(***************************************************************************)
AgcRoot == IF agcDirSet THEN "$AGC_DIR" ELSE "$CARGO_MANIFEST_DIR/agc"

\* The environment cargo starts the build script with.
AmbientEnv ==
    [n \in {"PATH", "HOME", "CARGO_MANIFEST_DIR"} \cup
           (IF agcDirSet THEN {"AGC_DIR"} ELSE {}) |-> "ambient:" \o n]

NeedsBuildAlways == TRUE

\* if !agc_root.join("bin/libagc.a").exists()
NeedsBuild == ~artifact

CheckArtifact ==
    /\ pc = "start"
    /\ pc' = IF NeedsBuild THEN "pick_make" ELSE "bridge_env"
    /\ UNCHANGED <<cfgVars, locVars, resolved, makeVars, procEnv, bridge, out,
                   procs, abortMsg, fsSeen, libVars>>

\* println!(warning); let make_cmd = ...; let mut make = Command::new(make_cmd);
PickMake ==
    /\ pc = "pick_make"
    /\ out' = Append(out, Warning("Building vendored AGC"))
    /\ IF macos
       THEN \E gmakeRuns \in BOOLEAN :
               /\ procs' = Append(procs, Proc("native", "gmake --version"))
               /\ makeCmd' = IF gmakeRuns THEN "gmake" ELSE "make"
               /\ pc' = "build_locate"
       ELSE /\ makeCmd' = "make"
            /\ pc' = "run_make"
            /\ UNCHANGED procs
    /\ UNCHANGED <<cfgVars, locVars, resolved, makeEnv, childEnv, makeCount,
                   makeOutcome, procEnv, bridge, abortMsg, fsSeen, libVars>>

BuildLocate ==
    /\ pc = "build_locate"
    /\ Locate("build")
    /\ UNCHANGED <<cfgVars, resolved, makeVars, procEnv, bridge, out, procs,
                   abortMsg, fsSeen, libVars>>

NoEnv == [n \in {} |-> ""]

\* The make.env(..) calls of the macOS branch.
MakeOverrides(tc) ==
    LET base == [n \in {"CC", "CXX", "LDFLAGS"} |->
                    CASE n = "CC" -> "gcc-" \o tc.ver
                      [] n = "CXX" -> "g++-" \o tc.ver
                      [] n = "LDFLAGS" -> "-static-libgcc -static-libstdc++"]
    IN  IF aarch64 THEN ("PLATFORM" :> "arm8") @@ base ELSE base

HomebrewRequired ==
    "Homebrew GCC 11-13 is required on macOS. Install with: brew install gcc@13"

BuildConfigure ==
    /\ Returned("build")
    /\ IF IsSome(locResult)
       THEN /\ out' = Append(out, Warning("Using Homebrew GCC " \o Unwrap(locResult).ver))
            /\ makeEnv' = MakeOverrides(Unwrap(locResult))
            /\ pc' = "run_make"
            /\ UNCHANGED abortMsg
       ELSE /\ Panic(HomebrewRequired)
            /\ UNCHANGED <<makeEnv, out>>
    /\ UNCHANGED <<cfgVars, makeCmd, childEnv, makeCount, makeOutcome, procEnv,
                   bridge, procs, fsSeen, libVars>>

ChildEnvCleared(parent, overrides) == overrides

\* std::process::Command: the child inherits the environment of the parent, and
\* the variables given with .env() are set on top of it (no env_clear() is called).
ChildEnv(parent, overrides) == overrides @@ parent

\* make cannot be started, make exits non-zero, make exits zero.
MakeOutcomes == {"spawnfail", "nonzero", "ok"}

MakeFatalOnlyIfNotStarted(outcome) == outcome = "spawnfail"

\* if !make.status().expect("failed to execute make").success() { panic!(..) }
MakeFatal(outcome) == outcome # "ok"

RunMake ==
    /\ pc = "run_make"
    /\ \E outcome \in MakeOutcomes :
          /\ makeOutcome' = outcome
          /\ IF MakeFatal(outcome)
             THEN Panic(IF outcome = "spawnfail" THEN "failed to execute make"
                                                 ELSE "AGC build failed")
             ELSE /\ pc' = "bridge_env"
                  /\ UNCHANGED abortMsg
    /\ childEnv' = ChildEnv(procEnv, makeEnv)
    /\ makeCount' = makeCount + 1
    /\ procs' = Append(procs, Proc("native", makeCmd \o " -j"))
    /\ UNCHANGED <<cfgVars, locVars, resolved, makeCmd, makeEnv, procEnv, bridge,
                   out, fsSeen, libVars>>

(***************************************************************************)
(* main, 2. Configure cxx-build for bridge                                 *)
(***************************************************************************)
Gxx(tc) == tc.prefix \o "/bin/g++-" \o tc.ver
Gcc(tc) == tc.prefix \o "/bin/gcc-" \o tc.ver
GccLibDir(tc) == tc.prefix \o "/lib/gcc/" \o tc.ver

Flag(f) == [flag |-> f, ifSupported |-> FALSE]
FlagIfSupported(f) == [flag |-> f, ifSupported |-> TRUE]

\* cxx_build::bridge("src/lib.rs") with the include paths and the two
\* flag_if_supported calls; no compiler chosen.
NewBridge ==
    [compiler |-> "",
     flags |-> <<FlagIfSupported("-std=c++20"), FlagIfSupported("-fPIC")>>,
     state |-> "configured"]

NoBridge == [compiler |-> "", flags |-> <<>>, state |-> "none"]

BridgeEnvLocate ==
    /\ pc = "bridge_env"
    /\ macos
    /\ Locate("env")
    /\ UNCHANGED <<cfgVars, resolved, makeVars, procEnv, bridge, out, procs,
                   abortMsg, fsSeen, libVars>>

\* The env::set_var calls.
BridgeEnvOverrides(tc) ==
    [n \in {"CXX", "CC", "TARGET_CXX", "TARGET_CC"} |->
        IF n \in {"CXX", "TARGET_CXX"} THEN Gxx(tc) ELSE Gcc(tc)]

BridgeEnvSet ==
    /\ Returned("env")
    /\ procEnv' = IF IsSome(locResult)
                  THEN BridgeEnvOverrides(Unwrap(locResult)) @@ procEnv
                  ELSE procEnv
    /\ pc' = "bridge_cfg"
    /\ UNCHANGED <<cfgVars, makeVars, bridge, out, procs, abortMsg, fsSeen, libVars>>

BridgeCfgLocate ==
    /\ pc = "bridge_cfg"
    /\ bridge' = NewBridge
    /\ Locate("bridge")
    /\ UNCHANGED <<cfgVars, resolved, makeVars, procEnv, out, procs, abortMsg,
                   fsSeen, libVars>>

\* bridge.compiler(..) and the bridge.flag(..) calls of the macOS branch.
BridgeWithToolchain(b, tc) ==
    [b EXCEPT !.compiler = Gxx(tc),
              !.flags = @ \o (IF aarch64 THEN <<Flag("-march=armv8-a")>> ELSE <<>>)
                          \o <<Flag("-static-libgcc"), Flag("-static-libstdc++"),
                               Flag("-L" \o GccLibDir(tc))>>]

BridgeCfgSet ==
    /\ Returned("bridge")
    /\ bridge' = IF IsSome(locResult)
                 THEN BridgeWithToolchain(bridge, Unwrap(locResult))
                 ELSE bridge
    /\ pc' = "bridge_compile"
    /\ UNCHANGED <<cfgVars, makeVars, procEnv, out, procs, abortMsg, fsSeen, libVars>>

\* #[cfg(not(target_os = "macos"))]: the bridge with the platform's compiler.
BridgeCfgOther ==
    /\ pc = "bridge_env"
    /\ ~macos
    /\ bridge' = [NewBridge EXCEPT !.flags = @ \o
                     <<FlagIfSupported("-static-libgcc"),
                       FlagIfSupported("-static-libstdc++")>>]
    /\ pc' = "bridge_compile"
    /\ UNCHANGED <<cfgVars, locVars, resolved, makeVars, procEnv, out, procs,
                   abortMsg, fsSeen, libVars>>

\* The compiler bridge.compile runs: the one given with bridge.compiler(..),
\* else the one the environment names (TARGET_CXX, CXX), else the platform's.
PlatformCompiler == "c++"
BridgeCompiler(b, env) ==
    IF b.compiler # "" THEN b.compiler
    ELSE IF "TARGET_CXX" \in DOMAIN env THEN env["TARGET_CXX"]
    ELSE IF "CXX" \in DOMAIN env THEN env["CXX"]
    ELSE PlatformCompiler

\* bridge.compile("agc-bridge"): a compile error panics.  (Only the lines
\* build.rs prints itself are in out, not those cxx_build prints.)
BridgeCompile ==
    /\ pc = "bridge_compile"
    /\ procs' = Append(procs, Proc("bridge", BridgeCompiler(bridge, procEnv)))
    /\ \E compiles \in BOOLEAN :
          IF compiles
          THEN /\ bridge' = [bridge EXCEPT !.state = "compiled"]
               /\ pc' = IF macos THEN "link_locate" ELSE "link_agc"
               /\ UNCHANGED abortMsg
          ELSE /\ bridge' = [bridge EXCEPT !.state = "failed"]
               /\ Panic("bridge compile failed")
    /\ UNCHANGED <<cfgVars, locVars, resolved, makeVars, procEnv, out, fsSeen,
                   libVars>>
(***************************************************************************)
(* main, 3. Link configuration for macOS                                   *)
(***************************************************************************)
LinkLocate ==
    /\ pc = "link_locate"
    /\ Locate("link")
    /\ UNCHANGED <<cfgVars, resolved, makeVars, procEnv, bridge, out, procs,
                   abortMsg, fsSeen, libVars>>

\* `gcc -print-libgcc-file-name`: gcc cannot be started, the path it prints
\* does not exist, the path it prints exists.
LibgccQueries == {"spawnfail", "missing", "present"}
\* `gcc -print-file-name=libgcc_eh.a`: as above, and "bare": gcc prints the name
\* as it was given (it found nothing) and a file of that name exists.
EhQueries == {"spawnfail", "missing", "present", "bare"}
FileStates == {"missing", "present"}

NothingSeen == [libgcc |-> "unseen", stdcxx |-> "unseen", atomic |-> "unseen",
                eh |-> "unseen", zstd |-> "unseen"]

RuntimeLinesDylibFirst(tc, fs) ==
    <<Lib("dylib", "gcc_s.1")>>
    \o (IF fs.libgcc = "present"
        THEN <<ForceLoad("libgcc", GccLibDir(tc) \o "/gcc/libgcc.a")>> ELSE <<>>)
    \o (IF fs.stdcxx = "present"
        THEN <<ForceLoad("libstdc++", GccLibDir(tc) \o "/libstdc++.a")>> ELSE <<>>)
    \o (IF fs.atomic = "present"
        THEN <<ForceLoad("libatomic", GccLibDir(tc) \o "/libatomic.a")>> ELSE <<>>)
    \o (IF aarch64 /\ fs.eh = "present"
        THEN <<ForceLoad("libgcc_eh", GccLibDir(tc) \o "/gcc/libgcc_eh.a")>> ELSE <<>>)

\* The lines the macOS link block prints, in the order it prints them.
RuntimeLines(tc, fs) ==
    (IF fs.libgcc = "present"
     THEN <<ForceLoad("libgcc", GccLibDir(tc) \o "/gcc/libgcc.a")>> ELSE <<>>)
    \o <<Search(GccLibDir(tc)), Search(tc.prefix \o "/lib")>>
    \o (IF fs.stdcxx = "present"
        THEN <<ForceLoad("libstdc++", GccLibDir(tc) \o "/libstdc++.a")>> ELSE <<>>)
    \o (IF fs.atomic = "present"
        THEN <<ForceLoad("libatomic", GccLibDir(tc) \o "/libatomic.a")>> ELSE <<>>)
    \o (IF aarch64 /\ fs.eh = "present"
        THEN <<ForceLoad("libgcc_eh", GccLibDir(tc) \o "/gcc/libgcc_eh.a")>> ELSE <<>>)
    \o <<Lib("dylib", "gcc_s.1")>>

\* The gcc calls of the macOS link block.
RuntimeQueries(tc) ==
    <<Proc("link", Gcc(tc) \o " -print-libgcc-file-name")>>
    \o (IF aarch64 THEN <<Proc("link", Gcc(tc) \o " -print-file-name=libgcc_eh.a")>>
                   ELSE <<>>)

LinkRuntime ==
    /\ Returned("link")
    /\ IF IsSome(locResult)
       THEN \E lg \in LibgccQueries, sx \in FileStates, at \in FileStates,
               eh \in (IF aarch64 THEN EhQueries ELSE {"unseen"}) :
               LET fs == [fsSeen EXCEPT !.libgcc = lg, !.stdcxx = sx,
                                        !.atomic = at, !.eh = eh]
               IN  /\ fsSeen' = fs
                   /\ out' = out \o RuntimeLines(Unwrap(locResult), fs)
                   /\ procs' = procs \o RuntimeQueries(Unwrap(locResult))
       ELSE UNCHANGED <<fsSeen, out, procs>>
    /\ pc' = "link_agc"
    /\ UNCHANGED <<cfgVars, makeVars, procEnv, bridge, abortMsg, libVars>>

(***************************************************************************)
(* main, 4. Link against AGC & dependencies, 5. Re-run triggers            *)
(***************************************************************************)
AgcLines(zstd) ==
    <<Search(AgcRoot \o "/bin"), Lib("static", "agc"),
      Search(AgcRoot \o "/3rd_party/zstd/lib"), Lib("static", "zstd")>>
    \o (IF macos
        THEN <<Search("/opt/homebrew/lib"), Search("/usr/local/lib")>>
             \o (IF zstd = "present"
                 THEN <<ForceLoad("libzstd", AgcRoot \o "/3rd_party/zstd/lib/libzstd.a")>>
                 ELSE <<>>)
        ELSE <<>>)
    \o <<Lib("", "z"), Lib("", "pthread")>>
    \o (IF macos THEN <<>> ELSE <<Lib("", "stdc++")>>)

RerunLines ==
    <<Line("rerun-if-env-changed", "AGC_DIR", ""),
      Line("rerun-if-changed", "src/lib.rs", ""),
      Line("rerun-if-changed", "src/agc_bridge.cpp", ""),
      Line("rerun-if-changed", "src/agc_bridge.h", "")>>

LinkAgc ==
    /\ pc = "link_agc"
    /\ \E zstd \in (IF macos THEN FileStates ELSE {"unseen"}) :
          /\ fsSeen' = [fsSeen EXCEPT !.zstd = zstd]
          /\ out' = out \o AgcLines(zstd) \o RerunLines
    /\ pc' = "done"
    /\ UNCHANGED <<cfgVars, locVars, resolved, makeVars, procEnv, bridge, procs,
                   abortMsg, libVars>>

\* The link plan: the cargo:rustc-link-* lines of out, in order.
IsLinkDirective(l) ==
    l.kind \in {"rustc-link-arg", "rustc-link-search", "rustc-link-lib"}
LinkPlan == SelectSeq(out, IsLinkDirective)

(***************************************************************************)
(* The build script: specification                                         *)
(***************************************************************************)
LibIdle ==
    /\ length = <<0, 0, 0, 0>>
    /\ request = <<>>
    /\ result = "none"

BuildStart ==
    /\ pc = "start"
    /\ ret = ""
    /\ brew = NoBrew
    /\ locIdx = 1
    /\ probeLog = <<>>
    /\ locResult = None
    /\ resolved = <<>>
    /\ makeCmd = ""
    /\ makeEnv = NoEnv
    /\ childEnv = NoEnv
    /\ makeCount = 0
    /\ makeOutcome = "none"
    /\ procEnv = AmbientEnv
    /\ bridge = NoBridge
    /\ out = <<>>
    /\ procs = <<>>
    /\ abortMsg = ""
    /\ fsSeen = NothingSeen

BuildInit ==
    /\ macos \in BOOLEAN
    /\ aarch64 \in BOOLEAN
    /\ agcDirSet \in BOOLEAN
    /\ artifact \in BOOLEAN
    /\ BuildStart

Init == BuildInit /\ LibIdle

Next ==
    \/ CheckArtifact
    \/ PickMake
    \/ BuildLocate
    \/ LocProbe
    \/ LocExhausted
    \/ BuildConfigure
    \/ RunMake
    \/ BridgeEnvLocate
    \/ BridgeEnvSet
    \/ BridgeCfgLocate
    \/ BridgeCfgSet
    \/ BridgeCfgOther
    \/ BridgeCompile
    \/ LinkLocate
    \/ LinkRuntime
    \/ LinkAgc

Spec == Init /\ [][Next]_vars

(***************************************************************************)
(* src/lib.rs: AGCFile::get_full_contig                                    *)
(*                                                                         *)
(* An i64 is kept at its width: four 16-bit limbs, least significant       *)
(* first, in two's complement.  An i32 is an integer in -2^31 .. 2^31 - 1. *)
(***************************************************************************)
LimbBase == 65536
LimbSign == 32768

\* The limb values the lengths are drawn from: both ends of the range and the
\* two values around the sign bit.
Limbs == {0, 1, LimbSign - 1, LimbSign, LimbBase - 1}
I64s == {<<a, b, c, d>> : a \in Limbs, b \in Limbs, c \in Limbs, d \in Limbs}

I64Zero == <<0, 0, 0, 0>>

\* length <= 0
LeZero(x) == x[4] >= LimbSign \/ x = I64Zero

\* length - 1, for length > 0 (no wrap-around happens there)
MinusOne(x) ==
    IF x[1] > 0 THEN <<x[1] - 1, x[2], x[3], x[4]>>
    ELSE IF x[2] > 0 THEN <<LimbBase - 1, x[2] - 1, x[3], x[4]>>
    ELSE IF x[3] > 0 THEN <<LimbBase - 1, LimbBase - 1, x[3] - 1, x[4]>>
    ELSE <<LimbBase - 1, LimbBase - 1, LimbBase - 1, x[4] - 1>>

\* `x as i32`: the low 32 bits of x, read as a signed integer
AsI32(x) ==
    IF x[2] >= LimbSign THEN (x[2] - LimbBase) * LimbBase + x[1]
                        ELSE x[2] * LimbBase + x[1]

\* The i64 with the value of the i32 e
I64OfI32(e) ==
    IF e >= 0 THEN <<e % LimbBase, e \div LimbBase, 0, 0>>
    ELSE <<e % LimbBase, (e \div LimbBase) % LimbBase, LimbBase - 1, LimbBase - 1>>

\* get_contig_sequence: start and end go to ffi::get_contig_string as given.
GetContigSequence(start, end) == <<[start |-> start, end |-> end]>>

\* get_full_contig, with len what get_contig_length returns.
GetFullContig ==
    /\ \E len \in I64s :
          /\ length' = len
          /\ IF LeZero(len)
             THEN /\ result' = "Err: not found or has zero length"
                  /\ request' = <<>>
             ELSE /\ request' = GetContigSequence(0, AsI32(MinusOne(len)))
                  /\ result' = "forwarded"
    /\ UNCHANGED buildVars

LibInit ==
    /\ macos = FALSE
    /\ aarch64 = FALSE
    /\ agcDirSet = FALSE
    /\ artifact = TRUE
    /\ BuildStart
    /\ LibIdle

LibNext == GetFullContig

LibSpec == LibInit /\ [][LibNext]_vars

(***************************************************************************)
(* Properties                                                              *)
(***************************************************************************)
NativeProcs == SelectSeq(procs, LAMBDA p : p.stage = "native")
LaterProcs == SelectSeq(procs, LAMBDA p : p.stage # "native")
InNativeStage ==
    \/ pc \in {"pick_make", "build_locate", "run_make"}
    \/ pc \in {"locating", "located"} /\ ret = "build"
NativeAbort ==
    pc = "aborted" /\ abortMsg \in {HomebrewRequired, "failed to execute make",
                                    "AGC build failed"}

\* C1: when bin/libagc.a exists under the resolved root (AGC_DIR or the
\* vendored directory), the native build stage starts no process at all (no
\* gmake probe, no brew probe, no make) and the run goes on to the bridge and
\* link stages: it is never in the native stage and never aborts from it.
C1_ExistingArtifactSkipsBuild ==
    artifact =>
        /\ NativeProcs = <<>>
        /\ makeCount = 0
        /\ makeOutcome = "none"
        /\ ~InNativeStage
        /\ ~NativeAbort
        /\ pc # "start" => pc \in {"bridge_env", "bridge_cfg", "bridge_compile",
                                   "link_locate", "link_agc", "done", "locating",
                                   "located", "aborted"}

\* C1 witness: override set, artifact present, the run completed on macOS with
\* its bridge and link stages having run.
C1_Witness ==
    /\ artifact /\ agcDirSet /\ macos
    /\ pc = "done"
    /\ bridge.state = "compiled"
    /\ LaterProcs # <<>>
    /\ LinkPlan # <<>>

Preference == <<"13", "12", "11">>
Available == {i \in 1..Len(Preference) : brew[Preference[i]] = "ok"}
Min(S) == CHOOSE m \in S : \A n \in S : m <= n

\* C2: for every assignment of probe results, detect_homebrew_gcc probes in the
\* order 13, 12, 11, stops at the first probe that succeeds and returns that
\* candidate, the highest-preference available one (None when none is).
C2_HighestPreferenceFirst ==
    /\ pc \in {"locating", "located"} =>
          /\ probeLog = SubSeq(Preference, 1, Len(probeLog))
          /\ \A i \in 1..Len(probeLog) :
                brew[probeLog[i]] = "ok" => i = Len(probeLog) /\ pc = "located"
    /\ pc = "located" =>
          IF Available = {}
          THEN locResult = None /\ probeLog = Preference
          ELSE /\ IsSome(locResult)
               /\ Unwrap(locResult).ver = Preference[Min(Available)]
               /\ probeLog = SubSeq(Preference, 1, Min(Available))

\* C2 witness: only "12" is available; "13" then "12" were probed, "11" was not.
C2_Witness ==
    /\ pc = "located"
    /\ brew["13"] # "ok" /\ brew["12"] = "ok" /\ brew["11"] # "ok"
    /\ IsSome(locResult) /\ Unwrap(locResult).ver = "12"
    /\ probeLog = <<"13", "12">>

\* C3: on macOS, once a detect_homebrew_gcc call has exhausted the candidates
\* (returned None), the run has aborted with the message naming the version
\* range; the bridge is not compiled and no link directive is printed.
C3_ExhaustionAlwaysAborts ==
    (macos /\ \E i \in DOMAIN resolved : resolved[i].tc = None) =>
        /\ pc = "aborted"
        /\ abortMsg = HomebrewRequired
        /\ bridge.state # "compiled"
        /\ LinkPlan = <<>>

MakeStagePassed ==
    /\ ~artifact
    /\ pc # "start"
    /\ ~InNativeStage
    /\ ~(pc = "aborted" /\ abortMsg = HomebrewRequired)

AllowList == {"CC", "CXX", "PLATFORM"}

MakeSets == IF macos
            THEN {"CC", "CXX", "LDFLAGS"} \cup (IF aarch64 THEN {"PLATFORM"} ELSE {})
            ELSE {}

RuntimeArchives == {"libgcc", "libstdc++", "libatomic", "libgcc_eh"}
IsRuntimeForceLoad(d) == d.kind = "rustc-link-arg" /\ d.name \in RuntimeArchives
\* A directive that lets a dynamic or host runtime supply the same symbols.
IsRuntimeFallback(d) ==
    /\ d.kind = "rustc-link-lib"
    /\ d.path # "static"
    /\ d.name \in {"gcc_s.1", "gcc_s", "stdc++", "atomic", "gcc_eh"}

\* C5: in the link plan, at every moment and for every combination of archives
\* found on disk, each force-load of a runtime archive of the Homebrew
\* toolchain comes before every dynamic or host-default runtime directive.
C5_ForceLoadBeforeFallback ==
    \A i, j \in DOMAIN LinkPlan :
        (IsRuntimeForceLoad(LinkPlan[i]) /\ IsRuntimeFallback(LinkPlan[j])) => i < j

\* C5 witness: a finished aarch64 macOS plan with all four force-loads and the
\* dylib directive.
C5_Witness ==
    /\ pc = "done"
    /\ \A a \in RuntimeArchives :
          \E i \in DOMAIN LinkPlan :
              LinkPlan[i].kind = "rustc-link-arg" /\ LinkPlan[i].name = a
    /\ \E j \in DOMAIN LinkPlan : IsRuntimeFallback(LinkPlan[j])

Required == {"libgcc", "libstdc++", "libatomic"}
DynamicName(lib) == CASE lib = "libgcc" -> "gcc_s.1"
                      [] lib = "libstdc++" -> "stdc++"
                      [] lib = "libatomic" -> "atomic"
OnDisk(lib) == CASE lib = "libgcc" -> fsSeen.libgcc = "present"
                 [] lib = "libstdc++" -> fsSeen.stdcxx = "present"
                 [] lib = "libatomic" -> fsSeen.atomic = "present"
HasForceLoad(lib) ==
    \E i \in DOMAIN LinkPlan :
        LinkPlan[i].kind = "rustc-link-arg" /\ LinkPlan[i].name = lib
HasDynamic(name) ==
    \E i \in DOMAIN LinkPlan :
        /\ LinkPlan[i].kind = "rustc-link-lib"
        /\ LinkPlan[i].name = name
        /\ LinkPlan[i].path # "static"
LinkToolchainResolved ==
    \E i \in DOMAIN resolved : resolved[i].site = "link" /\ IsSome(resolved[i].tc)

\* C6: in the finished plan of a run whose link stage resolved a toolchain, for
\* each of libgcc, libstdc++, libatomic: the archive on disk is force-loaded;
\* the archive not on disk is not force-loaded and its dynamic library is
\* linked by name instead.
C6_StaticElseDynamic ==
    (pc = "done" /\ LinkToolchainResolved) =>
        \A lib \in Required :
            IF OnDisk(lib)
            THEN HasForceLoad(lib)
            ELSE HasDynamic(DynamicName(lib)) /\ ~HasForceLoad(lib)

\* C7: every detect_homebrew_gcc result the stages of one run used (native
\* build, bridge environment, bridge compiler, link plan) is the same toolchain.
C7_OneToolchainPerBuild ==
    \A i, j \in DOMAIN resolved : resolved[i].tc = resolved[j].tc

\* C8: when make cannot be started or exits non-zero, the run has aborted, make
\* ran once only, the bridge was never created or compiled, no process of a
\* later stage was started and no link directive was printed.
C8_BuildFailureAborts ==
    makeOutcome \in {"spawnfail", "nonzero"} =>
        /\ pc = "aborted"
        /\ makeCount = 1
        /\ bridge = NoBridge
        /\ LaterProcs = <<>>
        /\ LinkPlan = <<>>

\* C8 witness: make exited non-zero and the run aborted.
C8_Witness ==
    /\ makeOutcome = "nonzero"
    /\ pc = "aborted"
    /\ abortMsg = "AGC build failed"

ProbeFailures == {"spawnfail", "exitfail", "empty"}

C9_State ==
    pc \in {"locating", "located"} =>
        /\ \A i \in 1..Len(probeLog) :
              brew[probeLog[i]] \in ProbeFailures =>
                  /\ locResult = None \/ Unwrap(locResult).ver # probeLog[i]
                  /\ i < Len(Preference) =>
                        \/ Len(probeLog) > i
                        \/ pc = "locating" /\ locIdx = i + 1
        /\ (pc = "located" /\ locResult = None) =>
              {probeLog[i] : i \in 1..Len(probeLog)} = {"13", "12", "11"}

\* C9: a probe that cannot be started, exits unsuccessfully or prints an empty
\* path makes its candidate not found and the next candidate is probed; None is
\* returned only after all of 13, 12, 11 were probed; no step of the locator
\* aborts the run.
C9_FailedProbeMeansNextCandidate ==
    /\ []C9_State
    /\ [][pc = "locating" => pc' \in {"locating", "located"}]_vars

\* C9 witness: brew is absent for 13, prints nothing for 12, fails for 11:
\* all three were probed and None is returned.
C9_Witness ==
    /\ pc = "located"
    /\ brew["13"] = "spawnfail" /\ brew["12"] = "empty" /\ brew["11"] = "exitfail"
    /\ locResult = None
    /\ probeLog = <<"13", "12", "11">>

\* C10: get_full_contig returns the error without a request when the length
\* is <= 0, and for a length L > 0 requests exactly start = 0, end = L - 1,
\* with end the true value of L - 1 (not wrapped, not truncated).
C10_FullRangeRequested ==
    result # "none" =>
        IF LeZero(length)
        THEN result = "Err: not found or has zero length" /\ request = <<>>
        ELSE /\ result = "forwarded"
             /\ Len(request) = 1
             /\ request[1].start = 0
             /\ I64OfI32(request[1].end) = MinusOne(length)
=============================================================================
